---- MODULE Spec2Model ----
(***************************************************************************)
(* The real-time room relay of zentra_chat: backend/consumers.py           *)
(* (ChatConsumer) behind the routing of backend/asgi.py.                   *)
(*                                                                         *)
(* One ChatConsumer instance serves one WebSocket connection.  Its         *)
(* handlers (connect, receive, chat_message, disconnect) run one at a      *)
(* time; every `await` of a handler is one atomic step, and the steps of   *)
(* different consumers interleave.  The channel layer keeps, per group, a  *)
(* set of channel names and, per channel, a FIFO queue of events.  The     *)
(* source configures no capacity for these queues, so none is modelled.    *)
(***************************************************************************)
EXTENDS Integers, Sequences, FiniteSets, TLC

\* ------------------------------------------------------------------ bounds

\* The connections (one consumer instance, one channel name each).
Conns == {"c1", "c2"}

\* The room names a URL may carry (path "ws/chat/<str:room_name>/").
Rooms == {"lobby", "a"}

\* The number of group_send calls a behaviour may hold.
MaxPublish == 2

\* The queue capacity the backpressure property is tried with; the source
\* sets none.
QueueCapacity == 1

\* The users of the interest views, and an id that belongs to no user.
Users == {"u1", "u2"}

NoUser == "nobody"

\* The requests the server handles at the same time.
Reqs == {"w1", "w2"}

\* No send of an interest is started once the table holds this many
\* InterestMessage rows (sends already past their check still create theirs).
MaxInterests == 1

\* No request that creates a Chat row (an accept of a pending interest, a chat
\* post that finds no chat) is started once the table holds this many rows.
MaxChats == 1

\* ------------------------------------------------------------ wire format

\* A WebSocket text frame.  wf says whether the text is well-formed JSON; t is
\* the type of the JSON value ("obj" an object, "arr" an array) and fields the
\* members of an object.
Frame(wf, t, fields) == [wf |-> wf, t |-> t, fields |-> fields]

NoFields == [none |-> "none"]

\* The frames a client sends: a well-formed {"message": ...}, one with an
\* additional field, an object without the message field, and text that is
\* no JSON.
TextData ==
    { Frame(TRUE, "obj", [message |-> "hi"]),
      Frame(TRUE, "obj", [message |-> "hello", extra |-> "x"]),
      Frame(TRUE, "obj", [extra |-> "x"]),
      Frame(FALSE, "none", NoFields) }

\* json.loads(text_data): the parsed value, or JSONDecodeError.
JsonLoads(text) ==
    IF text.wf
    THEN [raised |-> "none", t |-> text.t, fields |-> text.fields]
    ELSE [raised |-> "JSONDecodeError", t |-> "none", fields |-> NoFields]

\* text_data_json["message"]: the value, KeyError when the object has no such
\* member, TypeError when the value is no object.
GetMessage(json) ==
    IF json.t # "obj" THEN [raised |-> "TypeError", message |-> "none"]
    ELSE IF "message" \notin DOMAIN json.fields
         THEN [raised |-> "KeyError", message |-> "none"]
         ELSE [raised |-> "none", message |-> json.fields.message]

\* A dump of the whole event, its type included.
JsonDumpsEvent(message) ==
    Frame(TRUE, "obj", [message |-> message, type |-> "chat_message"])

\* json.dumps({"message": message}).
JsonDumps(message) == Frame(TRUE, "obj", [message |-> message])

\* Lines 54-55 of receive: the message of a frame, or the exception raised.
ParseTextData(text) ==
    LET json == JsonLoads(text)
    IN  IF json.raised # "none"
        THEN [raised |-> json.raised, message |-> "none"]
        ELSE GetMessage(json)

\* ---------------------------------------------------------- channel layer

\* A group name that ignores the room.
RoomGroupNameShared(r) == <<"chat", "lobby">>

\* self.room_group_name = f"chat_{self.room_name}"
RoomGroupName(r) == <<"chat", r>>

GroupNames == { RoomGroupName(r) : r \in Rooms }

\* A group_add that puts the channel into every group.
GroupAddEverywhere(g, group, channel) ==
    [h \in DOMAIN g |-> g[h] \cup {channel}]

\* channel_layer.group_add(group, channel)
GroupAdd(g, group, channel) == [g EXCEPT ![group] = @ \cup {channel}]

\* A group_discard that removes nothing.
GroupDiscardNothing(g, group, channel) == g

\* A group_discard that drops the whole group.
GroupDiscardGroup(g, group, channel) == [g EXCEPT ![group] = {}]

\* channel_layer.group_discard(group, channel)
GroupDiscard(g, group, channel) == [g EXCEPT ![group] = @ \ {channel}]

\* The channels group_send(group, ...) puts the event on.
GroupChannels(g, group) == g[group]

\* A group_send that puts the event at the front of each queue.
GroupSendFront(q, g, group, event) ==
    [c \in Conns |->
        IF c \in GroupChannels(g, group) THEN <<event>> \o q[c] ELSE q[c]]

\* channel_layer.group_send(group, event): the event is appended to the queue
\* of every channel of the group.
GroupSend(q, g, group, event) ==
    [c \in Conns |->
        IF c \in GroupChannels(g, group) THEN Append(q[c], event) ELSE q[c]]

\* The event the dispatch loop of a consumer takes from its channel next.
NextEvent(q) == Head(q)

\* The queue after that event was taken.
RestEvents(q) == Tail(q)

\* ------------------------------------------------------------------ state

VARIABLES
    state,      \* lifecycle of each connection
    room,       \* self.room_name of each consumer
    groups,     \* channel layer: group name -> set of channels
    queue,      \* channel layer: channel -> events not yet dispatched
    outbox,     \* the frames each consumer sent to its client, in order
    closedBy,   \* how a connection ended: "none", "disconnect", "error", "denied"
    raised,     \* the exception that ended a consumer's handler, or "none"
    published,  \* history: the group_send calls, in order
    inflightAtClose, \* history: the publishes pending elsewhere when c closed
    interests,  \* the InterestMessage table: row id -> sender, receiver, status
    chats,      \* the Chat table: row id -> user1, user2
    req,        \* the request each worker is handling, and how far it is
    resp        \* the response to the request of each worker

relayVars == <<state, room, groups, queue, outbox, closedBy, raised, published,
               inflightAtClose>>

dbVars == <<interests, chats, req, resp>>

vars == <<relayVars, dbVars>>

NoRoom == "none"

States == {"Idle", "Connecting", "Open", "Closing", "Closed"}

\* A worker that handles no request.
IdleReq ==
    [kind |-> "none", user |-> NoUser, target |-> NoUser, id |-> 0,
     pc |-> "idle"]

NoResp == [code |-> 0, error |-> "none"]

Init ==
    /\ interests = <<>>
    /\ chats = <<>>
    /\ req = [w \in Reqs |-> IdleReq]
    /\ resp = [w \in Reqs |-> NoResp]
    /\ state = [c \in Conns |-> "Idle"]
    /\ room = [c \in Conns |-> NoRoom]
    /\ groups = [g \in GroupNames |-> {}]
    /\ queue = [c \in Conns |-> <<>>]
    /\ outbox = [c \in Conns |-> <<>>]
    /\ closedBy = [c \in Conns |-> "none"]
    /\ raised = [c \in Conns |-> "none"]
    /\ published = <<>>
    /\ inflightAtClose = [c \in Conns |-> {}]

\* The ids of the events in a queue, and of the frames in an outbox.
Ids(s) == { s[i].id : i \in 1..Len(s) }

\* The publishes still waiting in the queue of a connected consumer other
\* than c.
InflightElsewhere(c) ==
    UNION { Ids(queue[d]) : d \in { e \in Conns \ {c} :
                                      state[e] \in {"Connecting", "Open"} } }

\* ---------------------------------------------------------------- actions

\* A denial that comes only after the channel has joined a group.
HandshakeDeniedAfterJoin(c) ==
    /\ state[c] = "Idle"
    /\ room' = [room EXCEPT ![c] = "lobby"]
    /\ groups' = GroupAdd(groups, RoomGroupName("lobby"), c)
    /\ state' = [state EXCEPT ![c] = "Closed"]
    /\ closedBy' = [closedBy EXCEPT ![c] = "denied"]
    /\ UNCHANGED <<queue, outbox, raised, published, inflightAtClose>>

\* asgi.py: AllowedHostsOriginValidator denies the handshake of a connection
\* from a disallowed origin; no consumer is created for it.
HandshakeDenied(c) ==
    /\ state[c] = "Idle"
    /\ state' = [state EXCEPT ![c] = "Closed"]
    /\ closedBy' = [closedBy EXCEPT ![c] = "denied"]
    /\ UNCHANGED <<room, groups, queue, outbox, raised, published,
                   inflightAtClose>>

\* connect, lines 20-25: the room name is taken from the URL and the channel
\* joins the room's group; the handshake is not accepted yet.
ConnectGroupAdd(c, r) ==
    /\ state[c] = "Idle"
    /\ room' = [room EXCEPT ![c] = r]
    /\ groups' = GroupAdd(groups, RoomGroupName(r), c)
    /\ state' = [state EXCEPT ![c] = "Connecting"]
    /\ UNCHANGED <<queue, outbox, closedBy, raised, published, inflightAtClose>>

\* An accept that reopens a socket that has closed already.
ConnectAcceptClosed(c) ==
    /\ state[c] \in {"Connecting", "Closing"}
    /\ state' = [state EXCEPT ![c] = "Open"]
    /\ UNCHANGED <<room, groups, queue, outbox, closedBy, raised, published,
                   inflightAtClose>>

\* connect, line 28: self.accept().
ConnectAccept(c) ==
    /\ state[c] = "Connecting"
    /\ state' = [state EXCEPT ![c] = "Open"]
    /\ UNCHANGED <<room, groups, queue, outbox, closedBy, raised, published,
                   inflightAtClose>>

\* The event receive hands to group_send; id numbers the publishes and is
\* carried along to tell them apart.
ChatEvent(message, id) ==
    [type |-> "chat_message", message |-> message, id |-> id]

\* History of one group_send: who sent what to which room, the channels of the
\* group at that moment (members) and the connections closed by then.
Publish(id, c, text, message) ==
    [id |-> id, sender |-> c, room |-> room[c], text |-> text,
     message |-> message,
     members |-> GroupChannels(groups, RoomGroupName(room[c])),
     closed |-> { x \in Conns : state[x] = "Closed" }]

\* A receive that broadcasts to the other members of the group only.
ReceiveToOthers(c, text) ==
    /\ state[c] = "Open"
    /\ LET parsed == ParseTextData(text)
           id == Len(published) + 1
           group == RoomGroupName(room[c])
       IN  IF parsed.raised # "none"
           THEN /\ raised' = [raised EXCEPT ![c] = parsed.raised]
                /\ state' = [state EXCEPT ![c] = "Closed"]
                /\ closedBy' = [closedBy EXCEPT ![c] = "error"]
                /\ inflightAtClose' =
                       [inflightAtClose EXCEPT ![c] = InflightElsewhere(c)]
                /\ UNCHANGED <<room, groups, queue, outbox, published>>
           ELSE /\ Len(published) < MaxPublish
                /\ queue' = [GroupSend(queue, groups, group,
                                       ChatEvent(parsed.message, id))
                                EXCEPT ![c] = queue[c]]
                /\ published' = Append(published,
                       Publish(id, c, text, parsed.message))
                /\ UNCHANGED <<state, room, groups, outbox, closedBy, raised,
                               inflightAtClose>>

\* A receive whose exception takes down every connection of the room.
ReceiveErrorClosesRoom(c, text) ==
    /\ state[c] = "Open"
    /\ LET parsed == ParseTextData(text)
           id == Len(published) + 1
           group == RoomGroupName(room[c])
       IN  IF parsed.raised # "none"
           THEN /\ raised' = [raised EXCEPT ![c] = parsed.raised]
                /\ state' = [d \in Conns |->
                                IF d \in GroupChannels(groups, group)
                                THEN "Closed" ELSE state[d]]
                /\ closedBy' = [closedBy EXCEPT ![c] = "error"]
                /\ inflightAtClose' =
                       [inflightAtClose EXCEPT ![c] = InflightElsewhere(c)]
                /\ UNCHANGED <<room, groups, queue, outbox, published>>
           ELSE /\ Len(published) < MaxPublish
                /\ queue' = GroupSend(queue, groups, group,
                                      ChatEvent(parsed.message, id))
                /\ published' = Append(published,
                       Publish(id, c, text, parsed.message))
                /\ UNCHANGED <<state, room, groups, outbox, closedBy, raised,
                               inflightAtClose>>

\* receive, lines 54-60.  An exception of lines 54-55 is caught nowhere: it
\* ends the consumer, the server closes the socket, and no disconnect handler
\* runs for a consumer that is gone.
Receive(c, text) ==
    /\ state[c] = "Open"
    /\ LET parsed == ParseTextData(text)
           id == Len(published) + 1
           group == RoomGroupName(room[c])
       IN  IF parsed.raised # "none"
           THEN /\ raised' = [raised EXCEPT ![c] = parsed.raised]
                /\ state' = [state EXCEPT ![c] = "Closed"]
                /\ closedBy' = [closedBy EXCEPT ![c] = "error"]
                /\ inflightAtClose' =
                       [inflightAtClose EXCEPT ![c] = InflightElsewhere(c)]
                /\ UNCHANGED <<room, groups, queue, outbox, published>>
           ELSE /\ Len(published) < MaxPublish
                /\ queue' = GroupSend(queue, groups, group,
                                      ChatEvent(parsed.message, id))
                /\ published' = Append(published,
                       Publish(id, c, text, parsed.message))
                /\ UNCHANGED <<state, room, groups, outbox, closedBy, raised,
                               inflightAtClose>>

\* receive, lines 54-60, when group_send cannot reach the channel layer (its
\* broker is down) and raises: like every exception of receive it is caught
\* nowhere and ends the consumer.
ReceiveUnreachable(c, text) ==
    /\ state[c] = "Open"
    /\ ParseTextData(text).raised = "none"
    /\ raised' = [raised EXCEPT ![c] = "ConnectionError"]
    /\ state' = [state EXCEPT ![c] = "Closed"]
    /\ closedBy' = [closedBy EXCEPT ![c] = "error"]
    /\ inflightAtClose' = [inflightAtClose EXCEPT ![c] = InflightElsewhere(c)]
    /\ UNCHANGED <<room, groups, queue, outbox, published>>

\* A send that writes nothing.
SendNothing(out, st, frame) == out

\* self.send(text_data=...): the frame goes out on an open socket; on a socket
\* that is closed already it goes nowhere.
Send(out, st, frame) == IF st = "Open" THEN Append(out, frame) ELSE out

\* chat_message, lines 74-77, for the next event of the consumer's channel.
ChatMessage(c) ==
    /\ state[c] \in {"Open", "Closing"}
    /\ queue[c] # <<>>
    /\ LET event == NextEvent(queue[c])
       IN  /\ outbox' = [outbox EXCEPT ![c] =
                  Send(@, state[c],
                       [text |-> JsonDumps(event.message), id |-> event.id])]
           /\ queue' = [queue EXCEPT ![c] = RestEvents(@)]
    /\ UNCHANGED <<state, room, groups, closedBy, raised, published,
                   inflightAtClose>>

\* The client closes the socket, or the transport fails: the server queues
\* websocket.disconnect for the consumer.
ClientClose(c) ==
    /\ state[c] \in {"Connecting", "Open"}
    /\ state' = [state EXCEPT ![c] = "Closing"]
    /\ inflightAtClose' = [inflightAtClose EXCEPT ![c] = InflightElsewhere(c)]
    /\ UNCHANGED <<room, groups, queue, outbox, closedBy, raised, published>>

\* The consumer stops after disconnect (line 41): c is Closed.
DisconnectState(st, c) == [st EXCEPT ![c] = "Closed"]

\* What disconnect (line 41) makes of the groups, for consumer c.
DisconnectGroups(g, c) == GroupDiscard(g, RoomGroupName(room[c]), c)

\* A disconnect that also throws away what waits in the queues of the group.
DisconnectPurging(c) ==
    /\ state[c] = "Closing"
    /\ groups' = DisconnectGroups(groups, c)
    /\ queue' = [d \in Conns |->
                    IF d \in GroupChannels(groups, RoomGroupName(room[c]))
                    THEN <<>> ELSE queue[d]]
    /\ state' = [state EXCEPT ![c] = "Closed"]
    /\ closedBy' = [closedBy EXCEPT ![c] = "disconnect"]
    /\ UNCHANGED <<room, outbox, raised, published, inflightAtClose>>

\* disconnect, line 41; the consumer stops after it.
Disconnect(c) ==
    /\ state[c] = "Closing"
    /\ groups' = DisconnectGroups(groups, c)
    /\ state' = DisconnectState(state, c)
    /\ closedBy' = [closedBy EXCEPT ![c] = "disconnect"]
    /\ UNCHANGED <<room, queue, outbox, raised, published, inflightAtClose>>

Next ==
    \/ \E c \in Conns : HandshakeDenied(c) /\ UNCHANGED dbVars
    \/ \E c \in Conns, r \in Rooms : ConnectGroupAdd(c, r) /\ UNCHANGED dbVars
    \/ \E c \in Conns : ConnectAccept(c) /\ UNCHANGED dbVars
    \/ \E c \in Conns, text \in TextData : Receive(c, text) /\ UNCHANGED dbVars
    \/ \E c \in Conns, text \in TextData :
           ReceiveUnreachable(c, text) /\ UNCHANGED dbVars
    \/ \E c \in Conns : ChatMessage(c) /\ UNCHANGED dbVars
    \/ \E c \in Conns : ClientClose(c) /\ UNCHANGED dbVars
    \/ \E c \in Conns : Disconnect(c) /\ UNCHANGED dbVars

Spec == Init /\ [][Next]_vars

\* ------------------------------------------------------ the interest views
\* zentra_chat/views.py.  Every request runs in a worker of its own; each
\* query of a view is one step, and no view runs in a transaction, so the
\* queries of concurrent requests interleave.

\* The ids a request may name: those of the users and one of no user; the ids
\* of the rows there may be and one more.
UserIds == Users \cup {NoUser}

InterestIds == 1..(MaxInterests + 1)

Response(code, error) == [code |-> code, error |-> error]

\* The request of a worker: the view, the authenticated user, the user id or
\* the row id of the URL, and how far the view has come.
Request(kind, u, t, id, pc) ==
    [kind |-> kind, user |-> u, target |-> t, id |-> id, pc |-> pc]

\* A worker takes a request when it handles none; the response to its last
\* request is gone by then.
Ready(w) == req[w].pc = "idle"

\* The view of worker w returns.
Return(w, response) ==
    /\ resp' = [resp EXCEPT ![w] = response]
    /\ req' = [req EXCEPT ![w] = IdleReq]

\* The view of worker w goes on to its next query.
Proceed(w, request) ==
    /\ req' = [req EXCEPT ![w] = request]
    /\ resp' = [resp EXCEPT ![w] = NoResp]

\* InterestMessage.objects.filter(sender=s, receiver=r).exists()
InterestExists(rows, s, r) ==
    \E i \in 1..Len(rows) : rows[i].sender = s /\ rows[i].receiver = r

\* A lookup of an interest by its id alone.
InterestFoundById(rows, id, u) == id \in 1..Len(rows)

\* InterestMessage.objects.get(id=id, receiver=u) finds a row.
InterestFound(rows, id, u) == id \in 1..Len(rows) /\ rows[id].receiver = u

\* SendInterestView.post, lines 121-127: the receiver is looked up, then
\* whether an interest from the sender to the receiver exists.
SendInterestCheck(w, u, t) ==
    /\ Ready(w)
    /\ IF t \notin Users
       THEN Return(w, Response(500, "User.DoesNotExist"))
       ELSE IF InterestExists(interests, u, t)
       THEN Return(w, Response(400, "Interest already sent."))
       ELSE /\ Len(interests) < MaxInterests
            /\ Proceed(w, Request("send", u, t, 0, "checked"))
    /\ UNCHANGED <<interests, chats>>

\* SendInterestView.post, lines 129-136: the interest is created, pending.
SendInterestCreate(w) ==
    /\ req[w].kind = "send" /\ req[w].pc = "checked"
    /\ interests' = Append(interests,
           [sender |-> req[w].user, receiver |-> req[w].target,
            status |-> "pending"])
    /\ Return(w, Response(201, "none"))
    /\ UNCHANGED chats

\* Lines 164-169 and 208-213: the interest of the given id whose receiver is
\* the user is read; get raises DoesNotExist when there is none, and the view
\* goes on only when the status of the row is pending.
InterestLoad(w, u, id, kind) ==
    /\ Ready(w)
    /\ IF ~InterestFound(interests, id, u)
       THEN Proceed(w, Request(kind, u, NoUser, id, "raised"))
       ELSE IF interests[id].status # "pending"
       THEN Return(w, Response(400, "Interest is not pending."))
       ELSE /\ kind = "accept" => Len(chats) < MaxChats
            /\ Proceed(w, Request(kind, u, NoUser, id, "loaded"))
    /\ UNCHANGED <<interests, chats>>

\* Lines 164 and 208: neither view catches the DoesNotExist of get; it leaves
\* the view and the request is answered with a server error.
InterestMissing(w) ==
    /\ req[w].kind \in {"accept", "reject"} /\ req[w].pc = "raised"
    /\ Return(w, Response(500, "InterestMessage.DoesNotExist"))
    /\ UNCHANGED <<interests, chats>>

\* interest.status = status; interest.save()
InterestSave(rows, id, status) == [rows EXCEPT ![id].status = status]

\* Chat.objects.create(user1=a, user2=b): a row with no messages.
NewChat(a, b) == [user1 |-> a, user2 |-> b, messages |-> ""]

\* AcceptInterestView.post, lines 164-169.
AcceptLoad(w, u, id) == InterestLoad(w, u, id, "accept")

\* AcceptInterestView.post, lines 171-172.
AcceptSave(w) ==
    /\ req[w].kind = "accept" /\ req[w].pc = "loaded"
    /\ interests' = InterestSave(interests, req[w].id, "accepted")
    /\ req' = [req EXCEPT ![w].pc = "saved"]
    /\ UNCHANGED <<chats, resp>>

\* AcceptInterestView.post, lines 175-180: the chat of the two users is
\* created.
AcceptCreateChat(w) ==
    /\ req[w].kind = "accept" /\ req[w].pc = "saved"
    /\ chats' = Append(chats,
           NewChat(interests[req[w].id].sender, interests[req[w].id].receiver))
    /\ Return(w, Response(200, "none"))
    /\ UNCHANGED interests

\* RejectInterestView.post, lines 208-213.
RejectLoad(w, u, id) == InterestLoad(w, u, id, "reject")

\* RejectInterestView.post, lines 215-221.
RejectSave(w) ==
    /\ req[w].kind = "reject" /\ req[w].pc = "loaded"
    /\ interests' = InterestSave(interests, req[w].id, "rejected")
    /\ Return(w, Response(200, "none"))
    /\ UNCHANGED chats

\* ------------------------------------------------------------ the chat view

\* Chat.objects.filter(user1=a, user2=b).first(), then the same with the two
\* users exchanged (lines 273-275): the lowest row of the two users, 0 when
\* there is none.
ChatFirst(rows, a, b) ==
    LET straight == { i \in 1..Len(rows) :
                        rows[i].user1 = a /\ rows[i].user2 = b }
        swapped == { i \in 1..Len(rows) :
                        rows[i].user1 = b /\ rows[i].user2 = a }
        Min(S) == CHOOSE i \in S : \A j \in S : i <= j
    IN  IF straight # {} THEN Min(straight)
        ELSE IF swapped # {} THEN Min(swapped)
        ELSE 0

\* ChatView.post, lines 266-275: the other user is looked up, then the chat
\* of the two users in either direction.
ChatPostFind(w, u, t) ==
    /\ Ready(w)
    /\ IF t \notin Users
       THEN Return(w, Response(500, "User.DoesNotExist"))
       ELSE /\ ChatFirst(chats, u, t) = 0 => Len(chats) < MaxChats
            /\ Proceed(w, Request("chat", u, t, ChatFirst(chats, u, t),
                                  "found"))
    /\ UNCHANGED <<interests, chats>>

\* ChatView.post, lines 277-278: no chat was found and one is created.
ChatPostCreate(w) ==
    /\ req[w].kind = "chat" /\ req[w].pc = "found" /\ req[w].id = 0
    /\ chats' = Append(chats, NewChat(req[w].user, req[w].target))
    /\ req' = [req EXCEPT ![w].id = Len(chats) + 1]
    /\ UNCHANGED <<interests, resp>>

\* ChatView.post, lines 280-285: objects is the manager of the model class,
\* and reading it from the instance chat raises AttributeError; the message
\* is stored nowhere and the view returns no response of its own.
ChatPostStore(w) ==
    /\ req[w].kind = "chat" /\ req[w].pc = "found" /\ req[w].id # 0
    /\ Return(w, Response(500, "AttributeError"))
    /\ UNCHANGED <<interests, chats>>

ViewsNext ==
    \/ \E w \in Reqs, u \in Users, t \in UserIds :
           SendInterestCheck(w, u, t) /\ UNCHANGED relayVars
    \/ \E w \in Reqs : SendInterestCreate(w) /\ UNCHANGED relayVars
    \/ \E w \in Reqs, u \in Users, id \in InterestIds :
           AcceptLoad(w, u, id) /\ UNCHANGED relayVars
    \/ \E w \in Reqs : AcceptSave(w) /\ UNCHANGED relayVars
    \/ \E w \in Reqs : AcceptCreateChat(w) /\ UNCHANGED relayVars
    \/ \E w \in Reqs, u \in Users, id \in InterestIds :
           RejectLoad(w, u, id) /\ UNCHANGED relayVars
    \/ \E w \in Reqs : RejectSave(w) /\ UNCHANGED relayVars
    \/ \E w \in Reqs : InterestMissing(w) /\ UNCHANGED relayVars
    \/ \E w \in Reqs, u \in Users, t \in UserIds :
           ChatPostFind(w, u, t) /\ UNCHANGED relayVars
    \/ \E w \in Reqs : ChatPostCreate(w) /\ UNCHANGED relayVars
    \/ \E w \in Reqs : ChatPostStore(w) /\ UNCHANGED relayVars

ViewsSpec == Init /\ [][ViewsNext]_vars

\* The handlers of a consumer run to their end and its dispatch loop takes
\* every event that waits for it: the event loop starves no consumer.  What a
\* client does (connect, send, close) is under no fairness.
Fairness ==
    \A c \in Conns :
        /\ WF_vars(ConnectAccept(c) /\ UNCHANGED dbVars)
        /\ WF_vars(ChatMessage(c) /\ UNCHANGED dbVars)
        /\ WF_vars(Disconnect(c) /\ UNCHANGED dbVars)

FairSpec == Spec /\ Fairness

TypeOK ==
    /\ state \in [Conns -> States]
    /\ room \in [Conns -> Rooms \cup {NoRoom}]
    /\ groups \in [GroupNames -> SUBSET Conns]
    /\ closedBy \in [Conns -> {"none", "disconnect", "error", "denied"}]
    /\ Len(published) <= MaxPublish
    /\ \A i \in 1..Len(interests) :
           /\ interests[i].sender \in Users /\ interests[i].receiver \in Users
           /\ interests[i].status \in {"pending", "accepted", "rejected"}
    /\ \A i \in 1..Len(chats) : chats[i].user1 \in Users /\ chats[i].user2 \in Users
    /\ \A w \in Reqs :
           req[w].pc \in {"idle", "checked", "loaded", "saved", "found", "raised"}

\* ----------------------------------------------------------------- claims

\* members(R) of the registry: the channels of the room's group.
Members(r) == groups[RoomGroupName(r)]

\* How many frames of the outbox carry publish id.
Count(out, id) == Cardinality({ i \in 1..Len(out) : out[i].id = id })

\* Publish id still waits in the queue of c.
Pending(c, id) == id \in Ids(queue[c])

PublishIds == 1..Len(published)

\* C1: in every reachable state and for every room R, members(R) is exactly
\* the set of connections that ran the group_add of connect for R and have not
\* run disconnect since; nothing removed remains.
C1_MembersExact ==
    \A r \in Rooms :
        Members(r) = { c \in Conns : /\ room[c] = r
                                     /\ state[c] # "Idle"
                                     /\ closedBy[c] # "disconnect" }

\* C1 witness: a room that has a member and a connection that left it.
C1_Witness ==
    \E r \in Rooms :
        /\ Members(r) # {}
        /\ \E c \in Conns : room[c] = r /\ closedBy[c] = "disconnect"

\* C2 as stated: every member of the room at publish time whose consumer has
\* taken the event from its queue was delivered the payload exactly once.
C2_ExactlyOnceEveryMember ==
    \A i \in PublishIds : \A c \in published[i].members :
        ~Pending(c, i) => Count(outbox[c], i) = 1

\* C2 amended: every member of the room at publish time is delivered the
\* payload at most once, and exactly once when it is still Open after its
\* consumer has handled the event; no connection is delivered it twice.
C2_ExactlyOnceWhileOpen ==
    \A i \in PublishIds : \A c \in Conns :
        /\ Count(outbox[c], i) <= 1
        /\ (c \in published[i].members /\ state[c] = "Open" /\ ~Pending(c, i))
               => Count(outbox[c], i) = 1

\* C2 witness: a publish to a room of two members, delivered once to each.
C2_Witness ==
    \E i \in PublishIds :
        /\ published[i].members = Conns
        /\ \A c \in Conns : Count(outbox[c], i) = 1

\* C3: room isolation: whatever a connection is delivered, or has waiting in
\* its queue, was published to the connection's own room.
C3_RoomIsolation ==
    \A c \in Conns :
        \A i \in Ids(outbox[c]) \cup Ids(queue[c]) : published[i].room = room[c]

\* C3 witness: two open connections in different rooms; one published and got
\* its own message, the other got nothing.
C3_Witness ==
    \E c, d \in Conns :
        /\ state[c] = "Open" /\ state[d] = "Open"
        /\ room[c] # room[d]
        /\ \E i \in PublishIds :
               /\ published[i].sender = c
               /\ d \in Conns \ published[i].closed
               /\ Count(outbox[c], i) = 1
        /\ outbox[d] = <<>> /\ queue[d] = <<>>

\* The frame {"message": m} for the message m of publish i.
EchoOf(i) ==
    [text |-> Frame(TRUE, "obj", [message |-> published[i].text.fields.message]),
     id |-> i]

C5_ClosureDoesNotSkipOthers ==
    \A c \in Conns : \A i \in inflightAtClose[c] :
        c \in published[i].members =>
            \A d \in published[i].members \ {c} :
                state[d] \in {"Connecting", "Open"} =>
                    \/ Pending(d, i) /\ Count(outbox[d], i) = 0
                    \/ ~Pending(d, i) /\ Count(outbox[d], i) = 1

\* C5 witness: c has left the room for good while publish i waited in the
\* queue of member d, and d has received i since.
C5_Witness ==
    \E c \in Conns : \E i \in inflightAtClose[c] :
        /\ c \in published[i].members
        /\ state[c] = "Closed"
        /\ \E d \in published[i].members \ {c} : Count(outbox[d], i) = 1

\* C6: a publish made after connection x has closed delivers nothing to x;
\* when x closed by disconnect it is no member of that publish and nothing is
\* queued for it, and every member that stays connected has the event waiting
\* or delivered exactly once.
C6_NothingAfterDisconnect ==
    \A i \in PublishIds : \A x \in published[i].closed :
        /\ Count(outbox[x], i) = 0
        /\ closedBy[x] = "disconnect" =>
               x \notin published[i].members /\ ~Pending(x, i)
        /\ \A y \in published[i].members \ {x} :
               state[y] = "Open" =>
                   Pending(y, i) \/ Count(outbox[y], i) = 1

\* C6 witness: x disconnected from the room, then y published to that room
\* and received the message.
C6_Witness ==
    \E i \in PublishIds : \E x \in published[i].closed :
        /\ closedBy[x] = "disconnect"
        /\ room[x] = published[i].room
        /\ published[i].sender # x
        /\ Count(outbox[published[i].sender], i) = 1

\* C7: every connection receives the publishes of its room in the order in
\* which they were published.
C7_PublishOrder ==
    \A c \in Conns :
        \A j, k \in 1..Len(outbox[c]) :
            j < k => outbox[c][j].id < outbox[c][k].id

\* C7 witness: a connection that has received two publishes.
C7_Witness ==
    \E c \in Conns : Len(outbox[c]) >= 2

\* The exceptions of lines 54-55 of receive for a payload that is not
\* well-formed or lacks the message field.
MalformedPayloadErrors == {"JSONDecodeError", "KeyError", "TypeError"}

\* A frame that tells the client of an error.
IsErrorNotice(frame) == "error" \in DOMAIN frame.text.fields

\* C8: after a payload that is not well-formed, or lacks the message field,
\* nothing was published, the sender was sent an error notice, and the sender
\* is still Open and a member of its room.
C8_MalformedIsRecoverable ==
    \A c \in Conns :
        raised[c] \in MalformedPayloadErrors =>
            /\ state[c] = "Open"
            /\ c \in Members(room[c])
            /\ \E k \in 1..Len(outbox[c]) : IsErrorNotice(outbox[c][k])

\* C9: no connection in state Closed is registered in any room.
C9_ClosedNotRegistered ==
    \A c \in Conns :
        state[c] = "Closed" => \A g \in GroupNames : c \notin groups[g]

NamedSteps ==
    { <<"Idle", "Connecting">>, <<"Connecting", "Open">>,
      <<"Open", "Closing">>, <<"Closing", "Closed">> }
        \cup { <<st, "Closed">> : st \in States \ {"Closed"} }

\* Connection c takes one of the lifecycle steps of set steps, or none, and
\* once Closed it stays Closed and joins no group it is not in.
LifecycleStep(c, steps) ==
    /\ state'[c] = state[c] \/ <<state[c], state'[c]>> \in steps
    /\ state[c] = "Closed" =>
           /\ state'[c] = "Closed"
           /\ \A g \in GroupNames : c \in groups'[g] => c \in groups[g]

\* C11 as stated: each connection's state only moves along Connecting -> Open
\* -> Closing -> Closed or from any state directly to Closed; Closed is
\* terminal and a Closed connection never becomes a room member again.
C11_LifecycleAsNamed ==
    [][\A c \in Conns : LifecycleStep(c, NamedSteps)]_vars

\* C11 amended: as C11, with the one more step Connecting -> Closing, taken
\* when the client closes the socket before connect has accepted it.
C11_LifecycleWithEarlyClose ==
    [][\A c \in Conns :
          LifecycleStep(c, NamedSteps \cup {<<"Connecting", "Closing">>})]_vars

\* C11 witness: a connection that was Open (it received a frame), closed by
\* disconnect and is Closed and out of its room.
C11_Witness ==
    \E c \in Conns :
        /\ state[c] = "Closed" /\ closedBy[c] = "disconnect"
        /\ outbox[c] # <<>>
        /\ c \notin Members(room[c])

\* C12: after a publish that could not reach the fabric, the sender was told
\* of the failure and is still Open and a member of its room.
C12_PublishErrorIsReported ==
    \A c \in Conns :
        raised[c] = "ConnectionError" =>
            /\ state[c] = "Open"
            /\ c \in Members(room[c])
            /\ \E k \in 1..Len(outbox[c]) : IsErrorNotice(outbox[c][k])

\* A step in which connection c meets an error: a handler of c raises, the
\* transport of c fails, or a delivery to c finds its socket closed.
ErrorStep(c) ==
    \/ raised'[c] # raised[c]
    \/ state[c] \in {"Connecting", "Open"} /\ state'[c] = "Closing"
    \/ state[c] = "Closing" /\ queue[c] # <<>> /\ queue'[c] = Tail(queue[c])

\* C13: fault isolation: a step in which one connection meets an error
\* changes neither the lifecycle state, nor the membership, nor what was
\* delivered to or waits for any other connection.
C13_FaultIsolation ==
    [][\A c \in Conns :
          ErrorStep(c) =>
              \A d \in Conns \ {c} :
                  /\ state'[d] = state[d]
                  /\ outbox'[d] = outbox[d]
                  /\ queue'[d] = queue[d]
                  /\ \A g \in GroupNames : d \in groups'[g] <=> d \in groups[g]]_vars

\* C13 witness: c raised in a handler; d, in the same room, is still Open, a
\* member, and has what c had published before.
C13_Witness ==
    \E c \in Conns : \E d \in Conns \ {c} :
        /\ raised[c] # "none"
        /\ room[d] = room[c]
        /\ state[d] = "Open" /\ d \in Members(room[d])
        /\ \E i \in PublishIds :
               published[i].sender = c /\ Count(outbox[d], i) = 1

\* The groups connection c is registered in.
GroupsOf(g, c) == { h \in GroupNames : c \in g[h] }

C15_EventuallyDelivered ==
    \A c \in Conns : \A i \in 1..MaxPublish :
        (Len(published) >= i /\ c \in published[i].members)
            ~> (Count(outbox[c], i) >= 1 \/ state[c] \notin {"Connecting", "Open"})

\* C15 witness: a connection other than the sender, joined at publish time
\* and still Open, has been delivered the publish.
C15_Witness ==
    \E i \in PublishIds : \E c \in published[i].members \ {published[i].sender} :
        state[c] = "Open" /\ Count(outbox[c], i) >= 1

\* This step publishes to a group that connection c is in.
DeliveryTo(c) ==
    /\ Len(published') = Len(published) + 1
    /\ c \in published'[Len(published')].members

\* C16: bounded backpressure: the queue of a connection never holds more
\* than its capacity, and a delivery that finds the queue full makes the
\* connection leave Open.
C16_BoundedBackpressure ==
    [][\A c \in Conns :
          /\ Len(queue'[c]) <= QueueCapacity
          /\ (Len(queue[c]) >= QueueCapacity /\ DeliveryTo(c))
                 => state'[c] # "Open"]_vars

\* C17: every frame delivered to any connection is exactly {"message": m}
\* for the m of the inbound payload of its publish: m is unchanged and every
\* additional inbound field is gone.
C17_OutboundIsMessageOnly ==
    \A c \in Conns : \A k \in 1..Len(outbox[c]) :
        /\ outbox[c][k] = EchoOf(outbox[c][k].id)
        /\ DOMAIN outbox[c][k].text.fields = {"message"}

\* C17 witness: a delivered frame whose inbound payload carried an
\* additional field.
C17_Witness ==
    \E c \in Conns : \E k \in 1..Len(outbox[c]) :
        "extra" \in DOMAIN published[outbox[c][k].id].text.fields

\* C20 as stated: a connection still Connecting is in no room, has no
\* broadcast queued or delivered, and a connection whose handshake was
\* rejected is registered nowhere.
C20_JoinOnlyWhenAccepted ==
    \A c \in Conns :
        /\ state[c] = "Connecting" =>
               GroupsOf(groups, c) = {} /\ queue[c] = <<>> /\ outbox[c] = <<>>
        /\ closedBy[c] = "denied" => GroupsOf(groups, c) = {}

\* C20 amended: connect joins the room before it accepts the handshake: a
\* connection still Connecting is a member of its room already (publishes to
\* the room are queued for it) but is delivered no frame before it is Open;
\* a connection whose handshake was rejected is registered nowhere and has
\* nothing queued or delivered.
C20_JoinBeforeAccept ==
    \A c \in Conns :
        /\ state[c] = "Connecting" =>
               GroupsOf(groups, c) = {RoomGroupName(room[c])} /\ outbox[c] = <<>>
        /\ closedBy[c] = "denied" =>
               GroupsOf(groups, c) = {} /\ queue[c] = <<>> /\ outbox[c] = <<>>

\* C20 witness: a connection still Connecting for which a publish waits.
C20_Witness ==
    \E c \in Conns : state[c] = "Connecting" /\ queue[c] # <<>>

\* C18: the status of an interest message changes only from pending, to
\* accepted or to rejected; accepted and rejected are terminal.
C18_StatusOnlyFromPending ==
    [][\A i \in 1..Len(interests) :
          interests'[i].status # interests[i].status =>
              /\ interests[i].status = "pending"
              /\ interests'[i].status \in {"accepted", "rejected"}]_vars

\* C19: after any sequence of sends, concurrent ones included, there is at
\* most one interest message per ordered pair (sender, receiver).
C19_OneInterestPerPair ==
    \A i, j \in 1..Len(interests) :
        (interests[i].sender = interests[j].sender
            /\ interests[i].receiver = interests[j].receiver) => i = j

\* The channels a step puts an event on.
Recipients == { c \in Conns : Len(queue'[c]) > Len(queue[c]) }

C22_ChatPostStoresAndSucceeds ==
    [][\A w \in Reqs :
          (req[w].kind = "chat" /\ req[w].pc = "found" /\ req'[w].pc = "idle") =>
              /\ resp'[w] = Response(200, "Message sent successfully.")
              /\ chats'[req[w].id].messages # ""]_vars

\* C23: a connect or a disconnect of a connection in room R changes the
\* membership of no other room, and by that connection only; a send changes
\* the membership of no room.
C23_FrameCondition ==
    [][/\ (published' # published \/ raised' # raised) => groups' = groups
       /\ \A r \in Rooms :
              groups'[RoomGroupName(r)] # groups[RoomGroupName(r)] =>
                  \E c \in Conns :
                      /\ room'[c] = r
                      /\ state'[c] # state[c]
                      /\ \/ groups'[RoomGroupName(r)] = Members(r) \cup {c}
                         \/ groups'[RoomGroupName(r)] = Members(r) \ {c}]_vars

\* One room has a member that has published, the other was joined and left.
C23_Witness ==
    \E c, d \in Conns :
        /\ room[c] = "lobby" /\ c \in Members("lobby")
        /\ room[d] = "a" /\ closedBy[d] = "disconnect" /\ Members("a") = {}
        /\ \E i \in 1..Len(published) : published[i].sender = c

\* The user of request w is the receiver of the interest the request names.
ByReceiver(w) ==
    /\ req[w].id \in 1..Len(interests)
    /\ interests[req[w].id].receiver = req[w].user

\* C24: only the receiver of an interest changes its status: the status of a
\* row changes by a step of an accept or reject of its receiver only, and no
\* step of an accept or reject of another user changes a row or a chat.
C24_OnlyReceiverDecides ==
    [][/\ \A i \in 1..Len(interests) :
              interests'[i].status # interests[i].status =>
                  \E w \in Reqs :
                      /\ req[w].kind \in {"accept", "reject"}
                      /\ req[w].id = i
                      /\ ByReceiver(w)
                      /\ req'[w] # req[w]
       /\ \A w \in Reqs :
              (req[w].kind \in {"accept", "reject"} /\ req'[w] # req[w]
                  /\ ~ByReceiver(w)) =>
                  interests' = interests /\ chats' = chats]_vars

\* The sender of a pending interest has asked to accept or reject it, no
\* other request was ever made next to it, and get has found nothing.
C24_Witness ==
    \E w, v \in Reqs :
        /\ w # v /\ req[v] = IdleReq /\ resp[v] = NoResp
        /\ req[w].kind \in {"accept", "reject"} /\ req[w].pc = "raised"
        /\ req[w].id \in 1..Len(interests)
        /\ interests[req[w].id].sender = req[w].user
        /\ interests[req[w].id].receiver # req[w].user
        /\ interests[req[w].id].status = "pending"
        /\ chats = <<>>

\* The two users of a chat row, in no order.
ChatPair(i) == {chats[i].user1, chats[i].user2}

\* C25: there is at most one Chat per unordered pair of users, and a Chat of
\* two users exists only when an interest between them is accepted.
C25_OneChatPerAcceptedPair ==
    /\ \A i, j \in 1..Len(chats) : ChatPair(i) = ChatPair(j) => i = j
    /\ \A i \in 1..Len(chats) :
           \E k \in 1..Len(interests) :
               /\ {interests[k].sender, interests[k].receiver} = ChatPair(i)
               /\ interests[k].status = "accepted"

====
